---- MODULE Spec2Model ----
(***************************************************************************)
(* Session store and streaming-generation lifecycle of LLMhmi.py.          *)
(*                                                                         *)
(* The main thread runs one handler at a time (Qt event loop): every       *)
(* handler is one atomic action.  A StreamWorker lives in its own QThread; *)
(* its signals reach the main window through queued connections, i.e.      *)
(* through the FIFO `queue' of posted events.                              *)
(* Strings are sequences of one-character strings.  A session id          *)
(* "s<ms>" is modelled by the millisecond clock value <ms>.                *)
(***************************************************************************)
EXTENDS Naturals, Integers, Sequences, FiniteSets, TLC

\* ------------------------------ bounds -------------------------------- *\
MaxClock == 2
MaxEffort == 3
NumFragments == 2
MaxHistory == 15
MaxListed == 3
MaxCjk == 10
MaxOther == 20

\* ------------------------------ data ---------------------------------- *\
None == 0

DefaultTitle == <<"untitled">>
DefaultModel == "llama3.1:q4"
DefaultSysPrompt == <<"sys">>
DefaultParams == [temperature |-> 7, top_p |-> 9, max_new_tokens |-> 512]

\* Python objects are shared by reference.  Every mutable object carries
\* its identity: it is named after the place where it was allocated, the
\* session id for the containers of a Session, <<session id, index>> for a
\* Message and for its attachment list.  An in-place change of an object
\* is seen through every reference to it (AppendMessage, Chunked).
Objs(sid) == [tags |-> sid, params |-> sid, stop |-> sid, messages |-> sid]

\* Message(role, content, ts, attachments) allocated at place obj; gen is
\* the worker for which _start_stream_worker created the message, None for
\* every other message.
Message(role, content, ts, attachments, gen, obj) ==
  [role |-> role, content |-> content, ts |-> ts,
   attachments |-> attachments, gen |-> gen, obj |-> obj, att |-> obj]

Session(sid, now) ==
  [id |-> sid, title |-> DefaultTitle, model |-> DefaultModel,
   pinned |-> FALSE, tags |-> <<>>, sys_prompt |-> DefaultSysPrompt,
   params |-> DefaultParams, stop |-> <<>>, messages |-> <<>>,
   created_at |-> now, objs |-> Objs(sid)]

\* demo_text, shortened to NumFragments characters
DemoText == [k \in 1..NumFragments |-> ToString(k)]

\* texts the user can type (already stripped, non-empty)
Texts == {<<"h", "i">>}

VARIABLES
  sessions,       \* self.sessions: sid -> Session
  order,          \* insertion order of the dict self.sessions
  current_sid,    \* self.current_sid
  stream_thread,  \* self.stream_thread (worker id of the thread, or None)
  stream_worker,  \* self.stream_worker (worker id, or None)
  last_latency,   \* self.last_latency
  last_error,     \* self.last_error
  is_generating,  \* self.is_generating
  progress_bar,   \* self.progress_bar.value()
  workers,        \* every StreamWorker created so far: id -> object state
  queue,          \* events posted to the main thread, in emission order
  file,           \* contents of SESS_PATH
  clock,          \* time.time() in milliseconds
  message_box,    \* the last QMessageBox.warning/information shown
  result,         \* the last call of a function of FunSpec and its value
  effort          \* what the user has done so far, see Cost

vars == <<sessions, order, current_sid, stream_thread, stream_worker,
          last_latency, last_error, is_generating, progress_bar, workers,
          queue, file, clock, message_box, result, effort>>

\* ------------------------------ helpers ------------------------------- *\
Last(s) == s[Len(s)]

Range(s) == {s[i] : i \in 1..Len(s)}

\* dict assignment d[k] = v: an existing key keeps its position
PutOrder(ord, k) == IF k \in Range(ord) THEN ord ELSE Append(ord, k)

PutSession(ss, k, v) == [x \in (DOMAIN ss) \cup {k} |-> IF x = k THEN v ELSE ss[x]]

RECURSIVE RemoveKey(_, _)
RemoveKey(ord, k) ==
  IF ord = <<>> THEN <<>>
  ELSE IF Head(ord) = k THEN RemoveKey(Tail(ord), k)
  ELSE <<Head(ord)>> \o RemoveKey(Tail(ord), k)

\* m.__dict__ as written by json.dumps: the four dataclass fields
MessageDict(m) ==
  [role |-> m.role, content |-> m.content, ts |-> m.ts,
   attachments |-> m.attachments]

\* SaveImage that leaves "pinned" out of every record
SaveImageNoPinned(ss, ord) ==
  [keys |-> ord,
   recs |-> [sid \in DOMAIN ss |->
     [title |-> ss[sid].title, model |-> ss[sid].model,
      tags |-> ss[sid].tags,
      sys_prompt |-> ss[sid].sys_prompt, params |-> ss[sid].params,
      stop |-> ss[sid].stop,
      messages |-> [i \in 1..Len(ss[sid].messages) |->
                      MessageDict(ss[sid].messages[i])],
      created_at |-> ss[sid].created_at]]]

\* _save_sessions: the JSON object written to SESS_PATH
SaveImage(ss, ord) ==
  [keys |-> ord,
   recs |-> [sid \in DOMAIN ss |->
     [title |-> ss[sid].title, model |-> ss[sid].model,
      pinned |-> ss[sid].pinned, tags |-> ss[sid].tags,
      sys_prompt |-> ss[sid].sys_prompt, params |-> ss[sid].params,
      stop |-> ss[sid].stop,
      messages |-> [i \in 1..Len(ss[sid].messages) |->
                      MessageDict(ss[sid].messages[i])],
      created_at |-> ss[sid].created_at]]]

\* _compose_prompt_for_backend: the blocks joined by blank lines
ComposeWindow == 10

LastN(s, n) == IF Len(s) <= n THEN s ELSE SubSeq(s, Len(s) - n + 1, Len(s))

Upper(role) ==
  CASE role = "user" -> "USER"
    [] role = "assistant" -> "ASSISTANT"
    [] role = "system" -> "SYSTEM"
    [] OTHER -> role

\* f"[{tag}]\n{text}"
Block(tag, text) == <<"[", tag, "]", "\n">> \o text

\* "\n\n".join(parts)
RECURSIVE JoinBlank(_)
JoinBlank(parts) ==
  IF parts = <<>> THEN <<>>
  ELSE IF Len(parts) = 1 THEN parts[1]
  ELSE parts[1] \o <<"\n", "\n">> \o JoinBlank(Tail(parts))

\* ComposePrompt with s.messages[:10], the first messages of the history
ComposePromptFirstTen(s) ==
  JoinBlank(<<Block("SYSTEM", s.sys_prompt)>> \o
            [i \in 1..(IF Len(s.messages) <= ComposeWindow
                        THEN Len(s.messages) ELSE ComposeWindow) |->
               Block(Upper(s.messages[i].role), s.messages[i].content)])

ComposePrompt(s) ==
  JoinBlank(<<Block("SYSTEM", s.sys_prompt)>> \o
            [i \in 1..Len(LastN(s.messages, ComposeWindow)) |->
               Block(Upper(LastN(s.messages, ComposeWindow)[i].role),
                     LastN(s.messages, ComposeWindow)[i].content)])

\* title given to a session by its first message (_on_send)
TitleCut == 20

TitleOf(text) ==
  IF Len(text) > TitleCut THEN SubSeq(text, 1, TitleCut) \o <<".", ".", ".">>
  ELSE text


\* ------------------------------ persistence --------------------------- *\
\* SESS_PATH: whether it exists, whether its text is JSON (json), the keys
\* of the JSON object in file order and the value under each key
Missing == [keys |-> <<>>, recs |-> <<>>, exists |-> FALSE, json |-> FALSE]

\* a sessions.json left by an earlier run: one finished exchange
SampleFile ==
  [keys |-> <<0>>,
   recs |-> [sid \in {0} |->
     [title |-> <<"h", "i">>, model |-> DefaultModel, pinned |-> FALSE,
      tags |-> <<>>, sys_prompt |-> DefaultSysPrompt,
      params |-> DefaultParams, stop |-> <<>>,
      messages |-> <<[role |-> "user", content |-> <<"h", "i">>, ts |-> 0,
                      attachments |-> <<>>],
                     [role |-> "assistant", content |-> <<"o", "k">>,
                      ts |-> 0, attachments |-> <<>>]>>,
      created_at |-> 0]],
   exists |-> TRUE, json |-> TRUE]

InitFiles == {Missing, SampleFile}

\* a JSON value that is not a number (null)
NotNumber == -1

\* dict.get(key, default)
Get(d, key, default) == IF key \in DOMAIN d THEN d[key] ELSE default

\* Message(**m) raises TypeError unless the keys of m are the fields of
\* Message, attachments being optional
MessageDecodes(m) ==
  /\ {"role", "content", "ts"} \subseteq DOMAIN m
  /\ DOMAIN m \subseteq {"role", "content", "ts", "attachments"}

\* the try block of _load_sessions runs to its end
Decodes(f) ==
  /\ f.json
  /\ \A sid \in Range(f.keys) :
       \A i \in 1..Len(Get(f.recs[sid], "messages", <<>>)) :
         MessageDecodes(f.recs[sid].messages[i])

\* Session(id=sid, title=s.get("title", ...), ...) and Message(**m) for
\* every message of the record s, at time t
LoadRecord(sid, s, t) ==
  [id |-> sid,
   title |-> Get(s, "title", DefaultTitle),
   model |-> Get(s, "model", DefaultModel),
   pinned |-> Get(s, "pinned", FALSE),
   tags |-> Get(s, "tags", <<>>),
   sys_prompt |-> Get(s, "sys_prompt", DefaultSysPrompt),
   params |-> Get(s, "params", DefaultParams),
   stop |-> Get(s, "stop", <<>>),
   messages |-> [i \in 1..Len(Get(s, "messages", <<>>)) |->
      Message(s.messages[i].role, s.messages[i].content, s.messages[i].ts,
              Get(s.messages[i], "attachments", <<>>), None, <<sid, i>>)],
   created_at |-> Get(s, "created_at", t),
   objs |-> Objs(sid)]

\* _load_sessions: every record of the file, or nothing when the file is
\* missing or an exception was caught
LoadSessions(f, t) ==
  IF f.exists /\ Decodes(f)
  THEN [sid \in Range(f.keys) |-> LoadRecord(sid, f.recs[sid], t)]
  ELSE <<>>

LoadOrder(f) == IF f.exists /\ Decodes(f) THEN f.keys ELSE <<>>

\* max(self.sessions.keys(), key=created_at): the first maximal key
NewestSid(ss, ord) ==
  ord[CHOOSE i \in 1..Len(ord) :
        /\ \A j \in 1..Len(ord) : ss[ord[j]].created_at <= ss[ord[i]].created_at
        /\ \A j \in 1..(i - 1) : ss[ord[j]].created_at < ss[ord[i]].created_at]

\* SESS_PATH after write_text(json.dumps(out))
Written(ss, ord) ==
  [keys |-> SaveImage(ss, ord).keys, recs |-> SaveImage(ss, ord).recs,
   exists |-> TRUE, json |-> TRUE]

\* the store MainWindow.__init__ builds from the file f at time t: the
\* loaded sessions, or one new session when the load left none
Started(f, t) ==
  IF LoadOrder(f) # <<>>
  THEN [sessions |-> LoadSessions(f, t), order |-> LoadOrder(f),
        current_sid |-> NewestSid(LoadSessions(f, t), LoadOrder(f))]
  ELSE [sessions |-> [sid \in {t} |-> Session(t, t)], order |-> <<t>>,
        current_sid |-> t]

\* the sort key of _refresh_session_list without its sign
Activity(s) ==
  IF s.messages # <<>> THEN Last(s.messages).ts ELSE s.created_at

\* -ts of a value that is not a number raises TypeError in the key of
\* _refresh_session_list; no handler catches it and the process ends
Fatal == \E sid \in DOMAIN sessions : Activity(sessions[sid]) = NotNumber

\* no function has been called yet
NoCall == [fn |-> "none", arg |-> <<>>, value |-> <<>>]

\* ------------------------------ Init ---------------------------------- *\
\* MainWindow.__init__ with one of the given files at SESS_PATH
InitWith(files) ==
  /\ clock = 1
  /\ \E f \in files :
       /\ file = f
       /\ sessions = Started(f, clock).sessions
       /\ order = Started(f, clock).order
       /\ current_sid = Started(f, clock).current_sid
  /\ stream_thread = None
  /\ stream_worker = None
  /\ last_latency = 0
  /\ last_error = "none"
  /\ is_generating = FALSE
  /\ progress_bar = 0
  /\ workers = <<>>
  /\ queue = <<>>
  /\ message_box = "none"
  /\ result = NoCall
  /\ effort = 0

Init == InitWith(InitFiles)

\* ------------------------------ time --------------------------------- *\
\* time.time() never goes back; a handler that reads it sees the value
\* the clock has reached by then
ReadClock == clock' \in clock..MaxClock

now == clock'

\* ------------------------------ StreamWorker -------------------------- *\
Event(kind, w, val) == [kind |-> kind, w |-> w, val |-> val]

\* StreamWorker.__init__
NewWorker(prompt, sid) ==
  [stop |-> FALSE, pc |-> "start", i |-> 0, t0 |-> 0, prompt |-> prompt,
   params_of |-> sid]

\* int((i + 1) / total * 100)
Percent(k) == (k * 100) \div NumFragments

Alive(w) == workers[w].pc \in {"check", "emit"}

\* run: t0 = time.time()
WorkerBegin(w) ==
  /\ workers[w].pc = "start"
  /\ ReadClock
  /\ workers' = [workers EXCEPT ![w].pc = "check", ![w].t0 = now]
  /\ UNCHANGED <<sessions, order, current_sid, stream_thread, stream_worker,
                 last_latency, last_error, is_generating, progress_bar,
                 queue, file>>
  /\ UNCHANGED message_box

\* WorkerCheck with the done signal emitted only when the text is exhausted
WorkerCheckSilent(w) ==
  /\ workers[w].pc = "check"
  /\ IF workers[w].i = NumFragments
     THEN /\ ReadClock
          /\ workers' = [workers EXCEPT ![w].pc = "returned"]
          /\ queue' = Append(queue, Event("done", w, now - workers[w].t0))
     ELSE /\ workers' = [workers EXCEPT ![w].pc =
                           IF workers[w].stop THEN "returned" ELSE "emit"]
          /\ queue' = queue
          /\ UNCHANGED clock
  /\ UNCHANGED <<sessions, order, current_sid, stream_thread, stream_worker,
                 last_latency, last_error, is_generating, progress_bar,
                 file>>
  /\ UNCHANGED message_box

\* WorkerCheck that tests the flag only when the text is exhausted
WorkerCheckAtEnd(w) ==
  /\ workers[w].pc = "check"
  /\ IF workers[w].i = NumFragments
     THEN /\ ReadClock
          /\ workers' = [workers EXCEPT ![w].pc = "returned"]
          /\ queue' = Append(queue, Event("done", w, now - workers[w].t0))
     ELSE /\ workers' = [workers EXCEPT ![w].pc = "emit"]
          /\ queue' = queue
          /\ UNCHANGED clock
  /\ UNCHANGED <<sessions, order, current_sid, stream_thread, stream_worker,
                 last_latency, last_error, is_generating, progress_bar,
                 file>>
  /\ UNCHANGED message_box

\* run: the for loop takes the next character and tests self._stop; when
\* the text is exhausted or the flag is set the loop ends and done is emitted
WorkerCheck(w) ==
  /\ workers[w].pc = "check"
  /\ IF workers[w].i = NumFragments \/ workers[w].stop
     THEN /\ ReadClock
          /\ workers' = [workers EXCEPT ![w].pc = "returned"]
          /\ queue' = Append(queue, Event("done", w, now - workers[w].t0))
     ELSE /\ workers' = [workers EXCEPT ![w].pc = "emit"]
          /\ queue' = queue
          /\ UNCHANGED clock
  /\ UNCHANGED <<sessions, order, current_sid, stream_thread, stream_worker,
                 last_latency, last_error, is_generating, progress_bar,
                 file>>
  /\ UNCHANGED message_box

\* run: self.chunk.emit(ch); self.progress.emit(...)
WorkerEmit(w) ==
  /\ workers[w].pc = "emit"
  /\ workers' = [workers EXCEPT ![w].pc = "check", ![w].i = @ + 1]
  /\ queue' = queue \o <<Event("chunk", w, DemoText[workers[w].i + 1]),
                         Event("progress", w, Percent(workers[w].i + 1))>>
  /\ UNCHANGED <<sessions, order, current_sid, stream_thread, stream_worker,
                 last_latency, last_error, is_generating, progress_bar,
                 file, clock>>
  /\ UNCHANGED message_box

\* run: an exception inside the try block: self.error.emit(str(e))
WorkerFail(w) ==
  /\ Alive(w)
  /\ workers' = [workers EXCEPT ![w].pc = "returned"]
  /\ queue' = Append(queue, Event("error", w, "err"))
  /\ UNCHANGED <<sessions, order, current_sid, stream_thread, stream_worker,
                 last_latency, last_error, is_generating, progress_bar,
                 file, clock>>
  /\ UNCHANGED message_box


\* ------------------------------ MainWindow ---------------------------- *\
\* s.messages.append(m) for the session s = ss[sid]: the list object grows
AppendMessage(ss, sid, m) ==
  [x \in DOMAIN ss |->
     IF ss[x].objs.messages = ss[sid].objs.messages
     THEN [ss[x] EXCEPT !.messages = Append(@, m)]
     ELSE ss[x]]

\* _on_stop, as a change of the worker objects
StopRequested(ws) ==
  IF is_generating /\ stream_worker # None
  THEN [ws EXCEPT ![stream_worker].stop = TRUE]
  ELSE ws

\* StartStreamWorker that leaves the append of the assistant message out
StartStreamWorkerNoAppend(ss, prompt) ==
  /\ workers' = Append(StopRequested(workers), NewWorker(prompt, current_sid))
  /\ is_generating' = TRUE
  /\ progress_bar' = 0
  /\ stream_thread' = Len(workers) + 1
  /\ stream_worker' = Len(workers) + 1
  /\ sessions' = ss

\* _start_stream_worker on the store ss the calling handler has built
StartStreamWorker(ss, prompt) ==
  /\ workers' = Append(StopRequested(workers), NewWorker(prompt, current_sid))
  /\ is_generating' = TRUE
  /\ progress_bar' = 0
  /\ stream_thread' = Len(workers) + 1
  /\ stream_worker' = Len(workers) + 1
  /\ sessions' = AppendMessage(ss, current_sid,
                    Message("assistant", <<>>, now, <<>>, Len(workers) + 1,
                            <<current_sid, Len(ss[current_sid].messages) + 1>>))

\* the store _on_send leaves before it starts the worker
Sent(ss, text) ==
  LET s == ss[current_sid]
      titled == [ss EXCEPT ![current_sid].title =
                   IF s.title = DefaultTitle /\ Len(s.messages) = 0
                   THEN TitleOf(text) ELSE @]
  IN AppendMessage(titled, current_sid,
                   Message("user", text, now, <<>>, None,
                           <<current_sid, Len(s.messages) + 1>>))

\* OnSend that composes the prompt after the assistant message is appended
OnSendComposesLate(text) ==
  /\ ReadClock
  /\ LET ss == Sent(sessions, text)
         late == AppendMessage(ss, current_sid,
                   Message("assistant", <<>>, now, <<>>, Len(workers) + 1,
                           <<current_sid,
                             Len(ss[current_sid].messages) + 1>>))
     IN /\ file' = Written(ss, order)
        /\ StartStreamWorker(ss, ComposePrompt(late[current_sid]))
  /\ UNCHANGED <<order, current_sid, last_latency, last_error, queue>>
  /\ UNCHANGED message_box

OnSend(text) ==
  /\ ReadClock
  /\ LET ss == Sent(sessions, text)
     IN /\ file' = Written(ss, order)
        /\ StartStreamWorker(ss, ComposePrompt(ss[current_sid]))
  /\ UNCHANGED <<order, current_sid, last_latency, last_error, queue>>
  /\ UNCHANGED message_box

\* s.messages = s.messages[:i+1]: a new list of the same Message objects
Sliced(ss, i) ==
  [ss EXCEPT ![current_sid].messages = SubSeq(@, 1, i),
             ![current_sid].objs.messages = current_sid]

\* LastUser scanning forward: the first user message
FirstUser(msgs) ==
  IF \E i \in 1..Len(msgs) : msgs[i].role = "user"
  THEN CHOOSE i \in 1..Len(msgs) :
         /\ msgs[i].role = "user"
         /\ \A j \in 1..(i - 1) : msgs[j].role # "user"
  ELSE 0

\* index of the most recent user message, 0 if there is none
LastUser(msgs) ==
  IF \E i \in 1..Len(msgs) : msgs[i].role = "user"
  THEN CHOOSE i \in 1..Len(msgs) :
         /\ msgs[i].role = "user"
         /\ \A j \in (i + 1)..Len(msgs) : msgs[j].role # "user"
  ELSE 0

\* OnRegen that starts a worker whether or not a user message was found
OnRegenAlways ==
  /\ LET i == LastUser(sessions[current_sid].messages)
         ss == Sliced(sessions, i)
     IN /\ ReadClock
        /\ StartStreamWorker(ss, ComposePrompt(ss[current_sid]))
        /\ UNCHANGED message_box
  /\ UNCHANGED <<order, current_sid, last_latency, last_error, queue, file>>

\* _on_regen: the loop from the end of the history to its first message
OnRegen ==
  /\ LET i == LastUser(sessions[current_sid].messages)
         ss == Sliced(sessions, i)
     IN IF i # 0
        THEN /\ ReadClock
             /\ StartStreamWorker(ss, ComposePrompt(ss[current_sid]))
             /\ UNCHANGED message_box
        ELSE /\ message_box' = "no_user_message"
             /\ UNCHANGED <<sessions, workers, is_generating, progress_bar,
                            stream_thread, stream_worker, clock>>
  /\ UNCHANGED <<order, current_sid, last_latency, last_error, queue, file>>

\* OnStop that also releases the slot
OnStopReleases ==
  /\ workers' = StopRequested(workers)
  /\ is_generating' = FALSE
  /\ UNCHANGED <<sessions, order, current_sid, stream_thread, stream_worker,
                 last_latency, last_error, progress_bar, queue, file, clock>>
  /\ UNCHANGED message_box

OnStop ==
  /\ workers' = StopRequested(workers)
  /\ UNCHANGED <<sessions, order, current_sid, stream_thread, stream_worker,
                 last_latency, last_error, is_generating, progress_bar,
                 queue, file, clock>>
  /\ UNCHANGED message_box

OnSessionSelected(sid) ==
  /\ sid \in DOMAIN sessions
  /\ sid # current_sid
  /\ current_sid' = sid
  /\ file' = Written(sessions, order)
  /\ UNCHANGED <<sessions, order, stream_thread, stream_worker, last_latency,
                 last_error, is_generating, progress_bar, workers, queue,
                 clock>>
  /\ UNCHANGED message_box

\* sid = f"s{int(time.time()*1000)}"
NewSid == now

OnNewSession ==
  /\ ReadClock
  /\ sessions' = PutSession(sessions, NewSid, Session(NewSid, now))
  /\ order' = PutOrder(order, NewSid)
  /\ current_sid' = NewSid
  /\ file' = Written(sessions', order')
  /\ UNCHANGED <<stream_thread, stream_worker, last_latency, last_error,
                 is_generating, progress_bar, workers, queue>>
  /\ UNCHANGED message_box

\* Duplicate with messages=list(s.messages): a new list that holds the
\* Message objects of the source
DuplicateShallow(s, sid) ==
  [id |-> sid, title |-> s.title \o <<"(copy)">>, model |-> s.model,
   pinned |-> s.pinned, tags |-> s.tags, sys_prompt |-> s.sys_prompt,
   params |-> s.params, stop |-> s.stop, messages |-> s.messages,
   created_at |-> now, objs |-> Objs(sid)]

\* the Session built by _on_dup_session from the current one
Duplicate(s, sid) ==
  [id |-> sid, title |-> s.title \o <<"(copy)">>, model |-> s.model,
   pinned |-> s.pinned, tags |-> s.tags, sys_prompt |-> s.sys_prompt,
   params |-> s.params, stop |-> s.stop,
   messages |-> [i \in 1..Len(s.messages) |->
      Message(s.messages[i].role, s.messages[i].content, s.messages[i].ts,
              s.messages[i].attachments, None, <<sid, i>>)],
   created_at |-> now, objs |-> Objs(sid)]

OnDupSession ==
  /\ ReadClock
  /\ sessions' = PutSession(sessions, NewSid,
                            Duplicate(sessions[current_sid], NewSid))
  /\ order' = PutOrder(order, NewSid)
  /\ current_sid' = NewSid
  /\ file' = Written(sessions', order')
  /\ UNCHANGED <<stream_thread, stream_worker, last_latency, last_error,
                 is_generating, progress_bar, workers, queue>>
  /\ UNCHANGED message_box

\* OnDelSession without the test of the number of sessions
OnDelSessionUnguarded(reply) ==
  /\ IF reply # "yes"
     THEN UNCHANGED <<sessions, order, current_sid, file>>
     ELSE /\ sessions' = [sid \in (DOMAIN sessions) \ {current_sid} |->
                            sessions[sid]]
          /\ order' = RemoveKey(order, current_sid)
          /\ current_sid' = IF order' = <<>> THEN None ELSE Head(order')
          /\ file' = Written(sessions', order')
  /\ UNCHANGED <<stream_thread, stream_worker, last_latency, last_error,
                 is_generating, progress_bar, workers, queue, clock,
                 message_box>>

\* OnDelSession that leaves current_sid on the deleted session
OnDelSessionKeepsCurrent(reply) ==
  /\ IF Cardinality(DOMAIN sessions) <= 1
     THEN /\ message_box' = "last_session"
          /\ UNCHANGED <<sessions, order, current_sid, file>>
     ELSE IF reply # "yes"
     THEN UNCHANGED <<sessions, order, current_sid, file, message_box>>
     ELSE /\ UNCHANGED <<message_box, current_sid>>
          /\ sessions' = [sid \in (DOMAIN sessions) \ {current_sid} |->
                            sessions[sid]]
          /\ order' = RemoveKey(order, current_sid)
          /\ file' = Written(sessions', order')
  /\ UNCHANGED <<stream_thread, stream_worker, last_latency, last_error,
                 is_generating, progress_bar, workers, queue, clock>>

\* _on_del_session; reply is the answer to the confirmation question
OnDelSession(reply) ==
  /\ IF Cardinality(DOMAIN sessions) <= 1
     THEN /\ message_box' = "last_session"
          /\ UNCHANGED <<sessions, order, current_sid, file>>
     ELSE IF reply # "yes"
     THEN UNCHANGED <<sessions, order, current_sid, file, message_box>>
     ELSE /\ UNCHANGED message_box
          /\ sessions' = [sid \in (DOMAIN sessions) \ {current_sid} |->
                            sessions[sid]]
          /\ order' = RemoveKey(order, current_sid)
          /\ current_sid' = Head(order')
          /\ file' = Written(sessions', order')
  /\ UNCHANGED <<stream_thread, stream_worker, last_latency, last_error,
                 is_generating, progress_bar, workers, queue, clock>>

\* the auto-save timer and Ctrl+S
SaveSessions ==
  /\ file' = Written(sessions, order)
  /\ UNCHANGED <<sessions, order, current_sid, stream_thread, stream_worker,
                 last_latency, last_error, is_generating, progress_bar,
                 workers, queue, clock>>
  /\ UNCHANGED message_box

\* ------------------------------ stream events ------------------------- *\
\* _on_stream_chunk on the store: the content of the Message object that
\* ends the current session's list is replaced
Chunked(ss, ch) ==
  IF /\ ss[current_sid].messages # <<>>
     /\ Last(ss[current_sid].messages).role = "assistant"
  THEN [x \in DOMAIN ss |->
          [ss[x] EXCEPT !.messages =
             [k \in 1..Len(ss[x].messages) |->
                IF ss[x].messages[k].obj = Last(ss[current_sid].messages).obj
                THEN [ss[x].messages[k] EXCEPT !.content = Append(@, ch)]
                ELSE ss[x].messages[k]]]]
  ELSE ss

\* what a worker whose flag is set still posts before run returns:
\* stream_thread.wait() blocks the handler until then
LastEvents(ws, w) ==
  CASE ws[w].pc = "start" -> <<Event("done", w, 0)>>
    [] ws[w].pc = "check" -> <<Event("done", w, now - ws[w].t0)>>
    [] ws[w].pc = "emit" ->
         <<Event("chunk", w, DemoText[ws[w].i + 1]),
           Event("progress", w, Percent(ws[w].i + 1)),
           Event("done", w, now - ws[w].t0)>>
    [] OTHER -> <<>>

Returned(ws, w) ==
  [ws EXCEPT ![w].stop = TRUE,
             ![w].pc = "returned",
             ![w].t0 = IF ws[w].pc = "start" THEN now ELSE @,
             ![w].i = IF ws[w].pc = "emit" THEN @ + 1 ELSE @]

\* a worker object whose run has returned and whose last signal has been
\* handled is unreachable: it is dropped
Dropped ==
  [stop |-> TRUE, pc |-> "returned", i |-> 0, t0 |-> 0, prompt |-> <<>>,
   params_of |-> None]

Collect(ws, w) == [ws EXCEPT ![w] = Dropped]

\* TeardownStream that leaves is_generating as it is
TeardownKeepsFlag(q, w) ==
  /\ IF stream_thread # None /\ workers[stream_thread].pc # "returned"
     THEN ReadClock ELSE UNCHANGED clock
  /\ workers' = IF stream_thread # None
                THEN Collect(Returned(workers, stream_thread), w)
                ELSE Collect(workers, w)
  /\ queue' = IF stream_thread # None
              THEN q \o LastEvents(workers, stream_thread) ELSE q
  /\ stream_worker' = None
  /\ stream_thread' = None
  /\ is_generating' = is_generating

\* TeardownStream that leaves the thread in its slot
TeardownKeepsThread(q, w) ==
  /\ IF stream_thread # None /\ workers[stream_thread].pc # "returned"
     THEN ReadClock ELSE UNCHANGED clock
  /\ workers' = IF stream_thread # None
                THEN Collect(Returned(workers, stream_thread), w)
                ELSE Collect(workers, w)
  /\ queue' = IF stream_thread # None
              THEN q \o LastEvents(workers, stream_thread) ELSE q
  /\ stream_worker' = None
  /\ stream_thread' = stream_thread
  /\ is_generating' = FALSE

\* _teardown_stream while the last signal of worker w is handled, given the
\* queue q without that signal
TeardownStream(q, w) ==
  /\ IF stream_thread # None /\ workers[stream_thread].pc # "returned"
     THEN ReadClock ELSE UNCHANGED clock
  /\ workers' = IF stream_thread # None
                THEN Collect(Returned(workers, stream_thread), w)
                ELSE Collect(workers, w)
  /\ queue' = IF stream_thread # None
              THEN q \o LastEvents(workers, stream_thread) ELSE q
  /\ stream_worker' = None
  /\ stream_thread' = None
  /\ is_generating' = FALSE

OnStreamChunk(ch) ==
  /\ sessions' = Chunked(sessions, ch)
  /\ queue' = Tail(queue)
  /\ UNCHANGED <<order, current_sid, stream_thread, stream_worker,
                 last_latency, last_error, is_generating, progress_bar,
                 workers, file, clock>>
  /\ UNCHANGED message_box

\* progress_bar.setValue, the slot of the progress signal
OnProgress(v) ==
  /\ progress_bar' = v
  /\ queue' = Tail(queue)
  /\ UNCHANGED <<sessions, order, current_sid, stream_thread, stream_worker,
                 last_latency, last_error, is_generating, workers, file,
                 clock>>
  /\ UNCHANGED message_box

\* OnStreamDone without the save
OnStreamDoneNoSave(w, latency) ==
  /\ last_latency' = latency
  /\ TeardownStream(Tail(queue), w)
  /\ progress_bar' = 100
  /\ UNCHANGED <<sessions, order, current_sid, last_error, file>>
  /\ UNCHANGED message_box

OnStreamDone(w, latency) ==
  /\ last_latency' = latency
  /\ TeardownStream(Tail(queue), w)
  /\ file' = Written(sessions, order)
  /\ progress_bar' = 100
  /\ UNCHANGED <<sessions, order, current_sid, last_error>>
  /\ UNCHANGED message_box

\* OnStreamError that discards the partial answer
OnStreamErrorDiscards(w, err) ==
  /\ last_error' = err
  /\ TeardownStream(Tail(queue), w)
  /\ sessions' = [sessions EXCEPT ![current_sid].messages =
                    IF @ # <<>> /\ Last(@).role = "assistant"
                    THEN SubSeq(@, 1, Len(@) - 1) ELSE @]
  /\ file' = Written(sessions', order)
  /\ message_box' = "error"
  /\ UNCHANGED <<order, current_sid, last_latency, progress_bar>>

OnStreamError(w, err) ==
  /\ last_error' = err
  /\ TeardownStream(Tail(queue), w)
  /\ file' = Written(sessions, order)
  /\ message_box' = "error"
  /\ UNCHANGED <<sessions, order, current_sid, last_latency, progress_bar>>

\* the main event loop takes the oldest posted event
Deliver ==
  /\ queue # <<>>
  /\ LET e == Head(queue)
     IN CASE e.kind = "chunk" -> OnStreamChunk(e.val)
          [] e.kind = "progress" -> OnProgress(e.val)
          [] e.kind = "done" -> OnStreamDone(e.w, e.val)
          [] e.kind = "error" -> OnStreamError(e.w, e.val)

\* ------------------------------ specification ------------------------- *\
\* The exploration is bounded by the user's activity: every user action
\* costs one unit, and starting a generation after an earlier one costs one
\* more.
Cost == IF Len(workers') > Len(workers) /\ workers # <<>> THEN 2 ELSE 1

UserAction ==
  /\ effort < MaxEffort
  /\ \/ \E text \in Texts : OnSend(text)
     \/ OnRegen
     \/ OnStop
     \/ \E sid \in DOMAIN sessions : OnSessionSelected(sid)
     \/ OnNewSession
     \/ OnDupSession
     \/ \E reply \in {"yes", "no"} : OnDelSession(reply)
     \/ SaveSessions
  /\ effort' = effort + Cost
  /\ UNCHANGED result
  /\ effort' <= MaxEffort

WorkerAction ==
  /\ UNCHANGED <<effort, result>>
  /\ \E w \in DOMAIN workers :
       WorkerBegin(w) \/ WorkerCheck(w) \/ WorkerEmit(w) \/ WorkerFail(w)

MainLoop == UNCHANGED <<effort, result>> /\ Deliver

Next == UserAction \/ WorkerAction \/ MainLoop

Spec == Init /\ [][Next]_vars


\* fairness: the OS schedules every thread and the Qt event loop keeps
\* taking posted events
FairSpec == Spec /\ WF_vars(WorkerAction) /\ WF_vars(MainLoop)

\* ------------------------------ the store across runs ----------------- *\
\* a file whose text is not JSON
Garbled == [keys |-> <<>>, recs |-> <<>>, exists |-> TRUE, json |-> FALSE]

\* a file whose second record holds a message without ts: Message(**m)
\* raises TypeError
HalfDecodable ==
  [keys |-> <<-1, 0>>,
   recs |-> [sid \in {-1, 0} |->
     IF sid = -1 THEN SampleFile.recs[0]
     ELSE [title |-> <<"b">>,
           messages |-> <<[role |-> "user", content |-> <<"x">>]>>,
           created_at |-> 0]],
   exists |-> TRUE, json |-> TRUE]

\* a file written by hand: every key of the record is left to its default
Sparse ==
  [keys |-> <<0>>, recs |-> [sid \in {0} |-> [title |-> <<"a">>]],
   exists |-> TRUE, json |-> TRUE]

\* two sessions with every field away from its default: one with a single
\* message that has an attachment, one without messages
RichFile ==
  [keys |-> <<-1, 0>>,
   recs |-> [sid \in {-1, 0} |->
     [title |-> IF sid = 0 THEN <<"b">> ELSE <<"a">>,
      model |-> "qwen2.5:7b", pinned |-> (sid = 0), tags |-> <<"t">>,
      sys_prompt |-> <<"brief">>,
      params |-> [temperature |-> 3, top_p |-> 8, max_new_tokens |-> 1024],
      stop |-> <<"END">>,
      messages |-> IF sid = 0 THEN <<>>
                   ELSE <<[role |-> "user", content |-> <<"x">>, ts |-> 0,
                           attachments |-> <<"a.txt">>]>>,
      created_at |-> 0]],
   exists |-> TRUE, json |-> TRUE]

\* a file whose record has null for created_at
BadTyped ==
  [keys |-> <<0>>,
   recs |-> [sid \in {0} |-> [title |-> <<"a">>, created_at |-> NotNumber]],
   exists |-> TRUE, json |-> TRUE]

StoreFiles ==
  {Missing, SampleFile, Garbled, HalfDecodable, Sparse, RichFile, BadTyped}

\* the window is closed and the program started again: __init__ with the
\* file the last run left
Restart ==
  /\ ReadClock
  /\ sessions' = Started(file, now).sessions
  /\ order' = Started(file, now).order
  /\ current_sid' = Started(file, now).current_sid
  /\ stream_thread' = None
  /\ stream_worker' = None
  /\ last_latency' = 0
  /\ last_error' = "none"
  /\ is_generating' = FALSE
  /\ progress_bar' = 0
  /\ workers' = <<>>
  /\ queue' = <<>>
  /\ message_box' = "none"
  /\ UNCHANGED file

StoreInit == InitWith(StoreFiles)

\* the handlers of the session list, the save and the restart, while the
\* process is alive
StoreNext ==
  /\ ~Fatal
  /\ effort < MaxEffort
  /\ \/ OnNewSession
     \/ OnDupSession
     \/ \E reply \in {"yes", "no"} : OnDelSession(reply)
     \/ \E sid \in DOMAIN sessions : OnSessionSelected(sid)
     \/ SaveSessions
     \/ Restart
  /\ effort' = effort + 1
  /\ UNCHANGED result

StoreSpec == StoreInit /\ [][StoreNext]_vars

\* ------------------------------ token estimate ----------------------- *\
\* a character is its code point; '一' and '鿿'
CjkFirst == 19968
CjkLast == 40959

\* naive_token_estimate that rounds to the nearest integer
naive_token_estimate_rounded(text) ==
  LET cjk_count == Cardinality({i \in 1..Len(text) :
                                  CjkFirst <= text[i] /\ text[i] <= CjkLast})
      ascii_count == Len(text) - cjk_count
      quarters == 2 * cjk_count + ascii_count
  IN IF (quarters + 2) \div 4 > 1 THEN (quarters + 2) \div 4 ELSE 1

\* cjk_count / 2 + ascii_count / 4 is a multiple of 1/4, which the floats
\* hold exactly: it is counted in quarters; int() cuts the fraction off
naive_token_estimate(text) ==
  LET cjk_count == Cardinality({i \in 1..Len(text) :
                                  CjkFirst <= text[i] /\ text[i] <= CjkLast})
      ascii_count == Len(text) - cjk_count
      quarters == 2 * cjk_count + ascii_count
  IN IF quarters \div 4 > 1 THEN quarters \div 4 ELSE 1

\* ------------------------------ session list ------------------------- *\
\* SortKey with the time of creation for every session
SortKeyByCreation(s) == <<IF s.pinned THEN 0 ELSE 1, 0 - s.created_at>>

\* the key of sorted() in _refresh_session_list: (not pinned, -activity)
SortKey(s) == <<IF s.pinned THEN 0 ELSE 1, 0 - Activity(s)>>

\* the order of Python on tuples of two numbers
KeyLess(a, b) == a[1] < b[1] \/ (a[1] = b[1] /\ a[2] < b[2])

\* sorted() is stable: an item stays behind the earlier items whose key is
\* not greater
RECURSIVE Insert(_, _, _)
Insert(l, sid, ss) ==
  IF l = <<>> THEN <<sid>>
  ELSE IF KeyLess(SortKey(ss[sid]), SortKey(ss[Head(l)])) THEN <<sid>> \o l
  ELSE <<Head(l)>> \o Insert(Tail(l), sid, ss)

RECURSIVE Sorted(_, _)
Sorted(ord, ss) ==
  IF ord = <<>> THEN <<>>
  ELSE Insert(Sorted(SubSeq(ord, 1, Len(ord) - 1), ss), Last(ord), ss)

\* text in s, for a text that is not empty
Contains(text, s) ==
  \E i \in 0..(Len(s) - Len(text)) : SubSeq(s, i + 1, i + Len(text)) = text

\* the ids of the items _refresh_session_list adds for the search text
\* (the letters of the model are lower case)
Listed(ss, ord, text) ==
  LET Shown(sid) ==
        \/ text = <<>>
        \/ Contains(text, ss[sid].title)
        \/ \E k \in 1..Len(ss[sid].tags) : Contains(text, <<ss[sid].tags[k]>>)
  IN SelectSeq(Sorted(ord, ss), Shown)

\* ------------------------------ functions on their own ---------------- *\
\* the functions that read the store and return a value are called on
\* stores larger than a few handler calls build
RoleAt(k) ==
  IF k % 3 = 1 THEN "user" ELSE IF k % 3 = 2 THEN "assistant" ELSE "system"

\* a store of one session with n messages, the k-th of content k
HistoryStore(n) ==
  [sid \in {1} |->
     [Session(1, 0) EXCEPT !.messages =
        [k \in 1..n |->
           Message(RoleAt(k), <<ToString(k)>>, 0, <<>>, None, <<1, k>>)]]]

\* a session of the list: pinned or not, and one of four histories
Shapes == [pinned : BOOLEAN, kind : 1..4]

Shaped(sid, sh) ==
  [Session(sid, IF sh.kind \in {2, 3} THEN 1 ELSE 0) EXCEPT
     !.pinned = sh.pinned,
     !.title = IF sid % 2 = 1 THEN <<"a">> ELSE <<"b">>,
     !.messages = IF sh.kind \in {1, 2} THEN <<>>
                  ELSE <<Message("user", <<"x">>,
                                 IF sh.kind = 3 THEN 0 ELSE 2, <<>>, None,
                                 <<sid, 1>>)>>]

ListStore(f) == [sid \in DOMAIN f |-> Shaped(sid, f[sid])]

FunStores ==
  {HistoryStore(n) : n \in 0..MaxHistory}
  \cup {ListStore(f) : f \in [1..MaxListed -> Shapes]}

\* a text of c characters of the range '一'..'鿿', its first and its
\* last character in turn, followed by o characters outside it: the
\* neighbours of the range and the letter A
TextOf(c, o) ==
  [i \in 1..(c + o) |->
     IF i <= c THEN (IF i % 2 = 1 THEN CjkFirst ELSE CjkLast)
     ELSE CASE i % 3 = 0 -> 65
            [] i % 3 = 1 -> CjkFirst - 1
            [] OTHER -> CjkLast + 1]

\* what the user has typed into the search box
Filters == {<<>>, <<"b">>}

FunInit ==
  /\ clock = 1
  /\ file = Missing
  /\ sessions \in FunStores
  /\ order = [i \in 1..Cardinality(DOMAIN sessions) |-> i]
  /\ current_sid = 1
  /\ stream_thread = None
  /\ stream_worker = None
  /\ last_latency = 0
  /\ last_error = "none"
  /\ is_generating = FALSE
  /\ progress_bar = 0
  /\ workers = <<>>
  /\ queue = <<>>
  /\ message_box = "none"
  /\ result = NoCall
  /\ effort = 0

\* what a function that only reads leaves alone
state == <<sessions, order, current_sid, stream_thread, stream_worker,
           last_latency, last_error, is_generating, progress_bar, workers,
           queue, file, clock, message_box, effort>>

\* a call of _compose_prompt_for_backend
CallCompose ==
  /\ result' = [fn |-> "compose", arg |-> current_sid,
                value |-> ComposePrompt(sessions[current_sid])]
  /\ UNCHANGED state

\* _refresh_session_list with the given text in the search box
CallList(text) ==
  /\ result' = [fn |-> "list", arg |-> text,
                value |-> Listed(sessions, order, text)]
  /\ UNCHANGED state

\* a call of naive_token_estimate
CallEstimate(c, o) ==
  /\ result' = [fn |-> "estimate", arg |-> TextOf(c, o),
                value |-> naive_token_estimate(TextOf(c, o))]
  /\ UNCHANGED state

\* one call in every behaviour: the functions change nothing, so a second
\* call would start from the same store
FunNext ==
  /\ result = NoCall
  /\ \/ CallCompose
     \/ \E text \in Filters : CallList(text)
     \/ \E c \in 0..MaxCjk, o \in 0..MaxOther : CallEstimate(c, o)

FunSpec == FunInit /\ [][FunNext]_vars

\* ------------------------------ export -------------------------------- *\
\* a lone surrogate: json.loads reads its escape from SESS_PATH, and
\* str.encode("utf-8") raises UnicodeEncodeError on a text that holds it
Surrogate == "ud800"

Unencodable(text) == \E i \in 1..Len(text) : text[i] = Surrogate

\* seconds in a minute: strftime("%Y-%m-%d %H:%M") drops the seconds
Minute == 60

human_ts(ts) == ts \div Minute

MessageDicts(s) == [i \in 1..Len(s.messages) |-> MessageDict(s.messages[i])]

\* the lines of the txt export: a head, the content, the attachments if
\* there are any, and an empty line for every message
RECURSIVE ExportTxt(_)
ExportTxt(msgs) ==
  IF msgs = <<>> THEN <<>>
  ELSE LET m == Head(msgs) IN
    <<[line |-> "head", ts |-> human_ts(m.ts), who |-> m.role,
       text |-> <<>>],
      [line |-> "content", ts |-> 0, who |-> "", text |-> m.content]>>
    \o (IF m.attachments # <<>>
        THEN <<[line |-> "attachments", ts |-> 0, who |-> "",
                text |-> m.attachments]>>
        ELSE <<>>)
    \o <<[line |-> "empty", ts |-> 0, who |-> "", text |-> <<>>] >>
    \o ExportTxt(Tail(msgs))

\* the name the md export gives to a role
Who(role) ==
  IF role = "user" THEN "User"
  ELSE IF role = "assistant" THEN "AI assistant" ELSE "System"

RECURSIVE ExportMdBody(_)
ExportMdBody(msgs) ==
  IF msgs = <<>> THEN <<>>
  ELSE LET m == Head(msgs) IN
    <<[line |-> "head", ts |-> human_ts(m.ts), who |-> Who(m.role),
       text |-> <<>>],
      [line |-> "content", ts |-> 0, who |-> "", text |-> m.content]>>
    \o (IF m.attachments # <<>>
        THEN <<[line |-> "attachments", ts |-> 0, who |-> "",
                text |-> m.attachments]>>
        ELSE <<>>)
    \o <<[line |-> "empty", ts |-> 0, who |-> "", text |-> <<>>] >>
    \o ExportMdBody(Tail(msgs))

\* the md export written at time t: title, time of export, model and
\* system prompt, then the messages
ExportMd(s, t) ==
  <<[line |-> "title", ts |-> 0, who |-> "", text |-> s.title],
    [line |-> "exported", ts |-> human_ts(t), who |-> "", text |-> <<>>],
    [line |-> "model", ts |-> 0, who |-> s.model, text |-> <<>>],
    [line |-> "sys_prompt", ts |-> 0, who |-> "", text |-> s.sys_prompt]>>
  \o ExportMdBody(s.messages)

\* the object of the json export
ExportJson(s) ==
  [session |->
     [id |-> s.id, title |-> s.title, model |-> s.model,
      created_at |-> s.created_at, sys_prompt |-> s.sys_prompt,
      params |-> s.params, messages |-> MessageDicts(s)]]

\* a text of some message of s cannot be encoded
ContentUnencodable(s) ==
  \E i \in 1..Len(s.messages) :
    \/ Unencodable(s.messages[i].content)
    \/ Unencodable(s.messages[i].attachments)

\* opening the path or write_text raises in _export_current
ExportFails(s, kind) ==
  \/ Unencodable(s.title)
  \/ ContentUnencodable(s)
  \/ kind \in {"md", "json"} /\ Unencodable(s.sys_prompt)

Kinds == {"txt", "md", "json"}

\* _export_current: the file left at EXPORT_DIR / fname and the message
\* box; a write that raises leaves the file opened and empty
ExportCurrent(kind) ==
  /\ ReadClock
  /\ LET s == sessions[current_sid]
         fname == [title |-> IF s.title # <<>> THEN s.title
                             ELSE <<"session">>,
                   time |-> now, kind |-> kind]
         text == CASE kind = "txt" -> ExportTxt(s.messages)
                   [] kind = "md" -> ExportMd(s, now)
                   [] OTHER -> ExportJson(s)
     IN IF ExportFails(s, kind)
        THEN /\ result' = [fn |-> "export", arg |-> kind,
                           value |-> [path |-> fname, written |-> FALSE,
                                      text |-> <<>>]]
             /\ message_box' = "export_failed"
        ELSE /\ result' = [fn |-> "export", arg |-> kind,
                           value |-> [path |-> fname, written |-> TRUE,
                                      text |-> text]]
             /\ message_box' = "export_done"
  /\ UNCHANGED <<sessions, order, current_sid, stream_thread, stream_worker,
                 last_latency, last_error, is_generating, progress_bar,
                 workers, queue, file>>

\* the dict _batch_export_zip writes for one session
BatchData(s) ==
  [title |-> s.title, model |-> s.model, sys_prompt |-> s.sys_prompt,
   params |-> s.params, tags |-> s.tags, messages |-> MessageDicts(s)]

\* f"{s.title or sid}.json": the title, or the id when the title is
\* empty (id is None when the name is the title)
EntryName(s, sid) ==
  [title |-> s.title, id |-> IF s.title # <<>> THEN None ELSE sid]

\* z.writestr raises for the session: its name or its data holds a text
\* that cannot be encoded
BatchFails(s) ==
  \/ Unencodable(s.title)
  \/ Unencodable(s.sys_prompt)
  \/ Unencodable(s.tags)
  \/ ContentUnencodable(s)

\* the position in selected of the first session whose entry raises, one
\* past the end when none does
FirstFailure(ss, selected) ==
  IF \E i \in 1..Len(selected) : BatchFails(ss[selected[i]])
  THEN CHOOSE i \in 1..Len(selected) :
         /\ BatchFails(ss[selected[i]])
         /\ \A j \in 1..(i - 1) : ~BatchFails(ss[selected[j]])
  ELSE Len(selected) + 1

\* the entries of the archive when the with block is left: one for every
\* session before the first failure, in the order of selected
Archive(ss, selected) ==
  [i \in 1..(FirstFailure(ss, selected) - 1) |->
     [name |-> EntryName(ss[selected[i]], selected[i]),
      data |-> BatchData(ss[selected[i]])]]

\* str(e) of the UnicodeEncodeError: the words it holds apart from the
\* position of the character in the text
EncodeErrorText == {"utf-8", Surrogate, "surrogates not allowed"}

\* what the items of batch_list can be selected to: every sequence of
\* distinct session ids
Selections ==
  {sel \in UNION {[1..k -> DOMAIN sessions] :
                    k \in 0..Cardinality(DOMAIN sessions)} :
     \A i, j \in 1..Len(sel) : i # j => sel[i] # sel[j]}

\* _batch_export_zip with the given items selected
BatchExportZip(selected) ==
  /\ IF selected = <<>>
     THEN /\ message_box' = "select_first"
          /\ UNCHANGED <<result, clock>>
     ELSE /\ ReadClock
          /\ result' =
               [fn |-> "batch", arg |-> selected,
                value |-> [path |-> now,
                           entries |-> Archive(sessions, selected),
                           report |->
                             IF FirstFailure(sessions, selected)
                                  <= Len(selected)
                             THEN EncodeErrorText ELSE {}]]
          /\ message_box' =
               IF FirstFailure(sessions, selected) <= Len(selected)
               THEN "batch_failed" ELSE "batch_done"
  /\ UNCHANGED <<sessions, order, current_sid, stream_thread, stream_worker,
                 last_latency, last_error, is_generating, progress_bar,
                 workers, queue, file>>

\* the file two new sessions leave: both carry the default title
Twins == Written([sid \in {0, 1} |-> Session(sid, 0)], <<0, 1>>)

\* a file with a session whose title is empty
Untitled ==
  [keys |-> <<0, 1>>,
   recs |-> [sid \in {0, 1} |->
     [title |-> IF sid = 0 THEN <<>> ELSE <<"a">>, created_at |-> 0]],
   exists |-> TRUE, json |-> TRUE]

\* a file with three sessions, the second with a lone surrogate in the
\* content of its message
Surrogates ==
  [keys |-> <<-1, 0, 1>>,
   recs |-> [sid \in {-1, 0, 1} |->
     [title |-> IF sid = -1 THEN <<"a">>
                ELSE IF sid = 0 THEN <<"b">> ELSE <<"c">>,
      messages |-> <<[role |-> "user",
                      content |-> IF sid = 0 THEN <<"x", Surrogate>>
                                  ELSE <<"x">>,
                      ts |-> 0]>>,
      created_at |-> sid + 1]],
   exists |-> TRUE, json |-> TRUE]

ExportFiles == {Missing, SampleFile, RichFile, Twins, Untitled, Surrogates}

ExportInit == InitWith(ExportFiles)

\* the export handlers on the store the program has started with
ExportNext ==
  /\ effort < MaxEffort
  /\ \/ \E kind \in Kinds : ExportCurrent(kind)
     \/ \E selected \in Selections : BatchExportZip(selected)
  /\ effort' = effort + 1

ExportSpec == ExportInit /\ [][ExportNext]_vars

\* ------------------------------ claims -------------------------------- *\
\* where the message created for generation w is, if it still exists
Pending(ss, w) ==
  {loc \in UNION {{<<sid, k>> : k \in 1..Len(ss[sid].messages)} :
                    sid \in DOMAIN ss} :
     ss[loc[1]].messages[loc[2]].gen = w}

PendingContent(ss, w) ==
  LET loc == CHOOSE l \in Pending(ss, w) : TRUE
  IN ss[loc[1]].messages[loc[2]].content

\* a step in which _start_stream_worker is entered
StartStep ==
  \/ \E text \in Texts : OnSend(text)
  \/ OnRegen /\ LastUser(sessions[current_sid].messages) # 0

\* the main loop handles a posted event of the given kind
Handles(kind) == MainLoop /\ Head(queue).kind = kind

\* C1: a start while a generation is active is rejected: no worker is
\* created, the active worker and its cancellation flag stay as they are and
\* no empty assistant message is appended.
C1_StartWhileActiveRejected ==
  [][(is_generating /\ StartStep) =>
       /\ Len(workers') = Len(workers)
       /\ stream_worker' = stream_worker
       /\ workers'[stream_worker].stop = workers[stream_worker].stop
       /\ Pending(sessions', Len(workers) + 1) = {}]_vars

\* C2: at most one producer (a run loop that has started and has not
\* returned) is alive in every reachable state.
C2_OneProducerAlive ==
  Cardinality({w \in DOMAIN workers : Alive(w)}) <= 1

\* number of chunk signals of worker w still in the queue
InFlight(w) ==
  Cardinality({k \in 1..Len(queue) :
                 queue[k].kind = "chunk" /\ queue[k].w = w})

\* C3: when a cancelled generation has ended, its pending message holds
\* exactly the fragments the producer emitted, and the content of the message
\* of an ended generation never changes again.
C3_CancelKeepsEmitted ==
  [][/\ \A w \in DOMAIN workers :
          (Handles("done") /\ Head(queue).w = w /\ workers[w].stop
             /\ Pending(sessions', w) # {}) =>
            PendingContent(sessions', w) = SubSeq(DemoText, 1, workers[w].i)
     /\ \A w \in DOMAIN workers :
          (workers[w] = Dropped /\ Pending(sessions, w) # {}
             /\ Pending(sessions', w) # {}) =>
            PendingContent(sessions', w) = PendingContent(sessions, w)]_vars

\* C4: the delivery of a chunk of generation w changes no message other than
\* the one created for w.
C4_ChunkOnlyToPending ==
  [][Handles("chunk") =>
       \A sid \in DOMAIN sessions :
         /\ sid \in DOMAIN sessions'
         /\ Len(sessions'[sid].messages) = Len(sessions[sid].messages)
         /\ \A k \in 1..Len(sessions[sid].messages) :
              sessions[sid].messages[k].gen # Head(queue).w =>
                sessions'[sid].messages[k] = sessions[sid].messages[k]]_vars

\* C5: every fragment emitted by a generation and no longer in flight has
\* been appended to its pending message, once and in emission order.
C5_NoFragmentLost ==
  \A w \in DOMAIN workers :
    workers[w] # Dropped =>
      /\ Pending(sessions, w) # {}
      /\ PendingContent(sessions, w) =
           SubSeq(DemoText, 1, workers[w].i - InFlight(w))


C7_StopOnlySetsFlag ==
  [][OnStop =>
       /\ UNCHANGED <<sessions, order, current_sid, stream_thread,
                      stream_worker, last_latency, last_error, is_generating,
                      progress_bar, queue, file>>
       /\ ~is_generating => workers' = workers
       /\ is_generating =>
            workers' = [workers EXCEPT ![stream_worker].stop = TRUE]
       /\ (IF is_generating' /\ stream_worker' # None
           THEN [workers' EXCEPT ![stream_worker'].stop = TRUE]
           ELSE workers') = workers']_vars

C7_Witness ==
  /\ is_generating
  /\ stream_worker # None
  /\ workers[stream_worker].stop
  /\ Alive(stream_worker)
  /\ Pending(sessions, stream_worker) # {}
  /\ PendingContent(sessions, stream_worker) = <<"1">>

\* C8: the done handler records the latency carried by the signal and
\* releases the slot; every worker eventually ends and every generation
\* eventually leaves the running state.
C8_GenerationEnds ==
  /\ [][Handles("done") =>
          /\ last_latency' = Head(queue).val
          /\ ~is_generating'
          /\ stream_worker' = None
          /\ stream_thread' = None]_vars
  /\ \A w \in 1..MaxEffort :
       (w \in DOMAIN workers) ~> (w \in DOMAIN workers /\ workers[w] = Dropped)
  /\ is_generating ~> ~is_generating

C8_Witness ==
  /\ ~is_generating
  /\ stream_worker = None
  /\ last_latency = 1
  /\ progress_bar = 100
  /\ \E w \in DOMAIN workers :
       /\ workers[w] = Dropped
       /\ Pending(sessions, w) # {}
       /\ PendingContent(sessions, w) = DemoText

\* C9: the error handler leaves every message as it is, records the error
\* text and releases the slot.
C9_ErrorKeepsPartial ==
  [][Handles("error") =>
       /\ sessions' = sessions
       /\ last_error' = Head(queue).val
       /\ ~is_generating'
       /\ stream_worker' = None
       /\ stream_thread' = None]_vars

C9_Witness ==
  /\ last_error = "err"
  /\ ~is_generating
  /\ \E w \in DOMAIN workers :
       /\ workers[w] = Dropped
       /\ Pending(sessions, w) # {}
       /\ PendingContent(sessions, w) = <<"1">>

\* C10: _on_regen on a history with a user message leaves the messages up
\* to the most recent user message, followed by one new empty assistant
\* message, and starts a worker; other sessions keep their messages.
C10_RegenTruncates ==
  [][(OnRegen /\ \E k \in 1..Len(sessions[current_sid].messages) :
                   sessions[current_sid].messages[k].role = "user") =>
       LET old == sessions[current_sid].messages
           new == sessions'[current_sid].messages
       IN /\ \E i \in 1..Len(old) :
               /\ old[i].role = "user"
               /\ \A j \in (i + 1)..Len(old) : old[j].role # "user"
               /\ Len(new) = i + 1
               /\ SubSeq(new, 1, i) = SubSeq(old, 1, i)
               /\ new[i + 1].role = "assistant"
               /\ new[i + 1].content = <<>>
               /\ new[i + 1].attachments = <<>>
          /\ Len(workers') = Len(workers) + 1
          /\ is_generating'
          /\ stream_worker' = Len(workers')
          /\ \A sid \in DOMAIN sessions :
               sid # current_sid => sessions'[sid] = sessions[sid]]_vars

C10_Witness ==
  \E sid \in DOMAIN sessions :
    LET msgs == sessions[sid].messages
    IN /\ Len(msgs) >= 2
       /\ msgs[Len(msgs)].role = "assistant"
       /\ msgs[Len(msgs)].gen # None
       /\ msgs[Len(msgs)].content = <<>>
       /\ msgs[Len(msgs) - 1].role = "user"
       /\ msgs[Len(msgs)].ts > msgs[Len(msgs) - 1].ts

\* C11: _on_regen on a session without a user message removes and adds no
\* message and starts no generation: the store, the worker objects, the
\* slot and the posted events stay as they are and the information box
\* "no user message found" is shown.
C11_RegenNeedsUser ==
  [][(OnRegen /\ \A k \in 1..Len(sessions[current_sid].messages) :
                   sessions[current_sid].messages[k].role # "user") =>
       /\ UNCHANGED <<sessions, order, current_sid, workers, stream_thread,
                      stream_worker, is_generating, progress_bar, queue,
                      file>>
       /\ message_box' = "no_user_message"]_vars

C11_Witness ==
  /\ message_box = "no_user_message"
  /\ sessions[current_sid].messages = <<>>
  /\ is_generating
  /\ Alive(stream_worker)
  /\ Pending(sessions, stream_worker) # {}

\* C12: the id allocated by _new_session or _on_dup_session is not an id of
\* the store, so the step adds one session and replaces none.
C12_FreshId ==
  [][(OnNewSession \/ OnDupSession) =>
       /\ current_sid' \notin DOMAIN sessions
       /\ DOMAIN sessions' = (DOMAIN sessions) \cup {current_sid'}
       /\ Cardinality(DOMAIN sessions') = Cardinality(DOMAIN sessions) + 1
       /\ \A sid \in DOMAIN sessions : sessions'[sid] = sessions[sid]]_vars

\* the mutable objects reachable from session sid
Reachable(ss, sid) ==
  {<<"tags", ss[sid].objs.tags>>, <<"params", ss[sid].objs.params>>,
   <<"stop", ss[sid].objs.stop>>, <<"messages", ss[sid].objs.messages>>}
  \cup {<<"message", ss[sid].messages[k].obj>> : k \in 1..Len(ss[sid].messages)}
  \cup {<<"attachments", ss[sid].messages[k].att>> :
          k \in 1..Len(ss[sid].messages)}

\* a handler that changes the current session in place
ChangesCurrent ==
  \/ \E text \in Texts : OnSend(text)
  \/ OnRegen
  \/ Handles("chunk")

\* C13: the session made by _on_dup_session has the messages of its source,
\* equal one by one in role, content, timestamp and attachments, and the
\* same tags, params and stop list; no two sessions of the store share a
\* mutable object, and a change of the current session (a message appended,
\* the history cut, a fragment added to a content) leaves every other
\* session as it was.
C13_DuplicateIsDeepCopy ==
  /\ [][OnDupSession =>
          LET src == sessions[current_sid]
              cp == sessions'[current_sid']
          IN /\ Len(cp.messages) = Len(src.messages)
             /\ \A k \in 1..Len(src.messages) :
                  /\ cp.messages[k].role = src.messages[k].role
                  /\ cp.messages[k].content = src.messages[k].content
                  /\ cp.messages[k].ts = src.messages[k].ts
                  /\ cp.messages[k].attachments = src.messages[k].attachments
             /\ cp.tags = src.tags
             /\ cp.params = src.params
             /\ cp.stop = src.stop
             /\ \A sid \in (DOMAIN sessions) \ {current_sid'} :
                  /\ sessions'[sid] = sessions[sid]
                  /\ Reachable(sessions', sid)
                       \cap Reachable(sessions', current_sid') = {}]_vars
  /\ [](\A a, b \in DOMAIN sessions :
          a # b => Reachable(sessions, a) \cap Reachable(sessions, b) = {})
  /\ [][ChangesCurrent =>
          \A sid \in DOMAIN sessions :
            sid # current_sid => sessions'[sid] = sessions[sid]]_vars

C13_Witness ==
  \E a, b \in DOMAIN sessions :
    /\ a # b
    /\ b = current_sid
    /\ sessions[b].title = sessions[a].title \o <<"(copy)">>
    /\ Len(sessions[a].messages) = 2
    /\ Len(sessions[b].messages) = 4
    /\ SubSeq(sessions[b].messages, 1, 2) =
         [k \in 1..2 |-> [sessions[a].messages[k] EXCEPT !.obj = <<b, k>>,
                                                         !.att = <<b, k>>]]
    /\ Last(sessions[b].messages).content # <<>>

\* C14: _on_del_session on a store of exactly one session deletes nothing,
\* whatever the user would answer: the sessions, their order, the current id
\* and the file stay as they are and the warning "keep at least one
\* session" is shown.
C14_LastSessionKept ==
  [][\A reply \in {"yes", "no"} :
       (OnDelSession(reply) /\ Cardinality(DOMAIN sessions) = 1) =>
         /\ UNCHANGED <<sessions, order, current_sid, file>>
         /\ message_box' = "last_session"]_vars

C14_Witness ==
  /\ message_box = "last_session"
  /\ Cardinality(DOMAIN sessions) = 1
  /\ Len(sessions[current_sid].messages) >= 2
  /\ is_generating

\* C15: in every reachable state the store holds at least one session,
\* current_sid is the id of a session of the store, and every session is
\* stored under its own id.
C15_CurrentInStore ==
  /\ DOMAIN sessions # {}
  /\ current_sid \in DOMAIN sessions
  /\ Range(order) = DOMAIN sessions
  /\ \A sid \in DOMAIN sessions : sessions[sid].id = sid

C15_Witness ==
  /\ Cardinality(DOMAIN sessions) = 1
  /\ current_sid \in DOMAIN sessions
  /\ current_sid < clock
  /\ sessions[current_sid].messages = <<>>
  /\ workers = <<>>
  /\ file = Written(sessions, order)

\* what _save_sessions keeps of a store: everything but the worker a message
\* was created for
Persistent(ss) ==
  [sid \in DOMAIN ss |->
     [ss[sid] EXCEPT !.messages =
        [i \in 1..Len(ss[sid].messages) |->
           [ss[sid].messages[i] EXCEPT !.gen = None]]]]

Corrupt(f) ==
  /\ f.exists
  /\ \/ ~Decodes(f)
     \/ \E sid \in Range(f.keys) :
          \/ Get(f.recs[sid], "created_at", 0) = NotNumber
          \/ \E i \in 1..Len(Get(f.recs[sid], "messages", <<>>)) :
               f.recs[sid].messages[i].ts = NotNumber

\* C17: while the file at SESS_PATH is missing or corrupt, the process is
\* alive and the store is the one new session that __init__ created: none of
\* the file's records is in it.
C17_CorruptLoadsFresh ==
  (~file.exists \/ Corrupt(file)) =>
    /\ ~Fatal
    /\ order = <<current_sid>>
    /\ DOMAIN sessions = {current_sid}
    /\ sessions[current_sid] =
         Session(current_sid, sessions[current_sid].created_at)

\* C18: _compose_prompt_for_backend returns the block [SYSTEM] with the
\* system prompt, then one block for each of the last min(10, n) messages of
\* the n the session has, in their order, each headed by its role in upper
\* case, all joined by blank lines: of 15 messages the 6th to the 15th, of 3
\* all three; the call changes nothing.
C18_ComposeLastTen ==
  [][CallCompose =>
       LET s == sessions[current_sid]
           n == Len(s.messages)
           k == IF n < 10 THEN n ELSE 10
           p == result'.value
       IN /\ p = JoinBlank(
                   <<Block("SYSTEM", s.sys_prompt)>> \o
                   [j \in 1..k |->
                      Block(CASE s.messages[n - k + j].role = "user" -> "USER"
                              [] s.messages[n - k + j].role = "assistant"
                                   -> "ASSISTANT"
                              [] s.messages[n - k + j].role = "system"
                                   -> "SYSTEM",
                            s.messages[n - k + j].content)])
          /\ SubSeq(p, 1, 4) = <<"[", "SYSTEM", "]", "\n">>
          /\ sessions = HistoryStore(n) =>
               \A j \in 1..n : (ToString(j) \in Range(p)) <=> (j > n - 10)
          /\ Cardinality({i \in 1..Len(p) : p[i] = "["}) = 1 + k
          /\ Cardinality({i \in 1..(Len(p) - 1) :
                            p[i] = "\n" /\ p[i + 1] = "\n"}) = k
          /\ n = 15 => Cardinality({j \in 1..n : ToString(j) \in Range(p)}) = 10
          /\ (n = 3 /\ sessions = HistoryStore(n)) =>
               Cardinality({j \in 1..n : ToString(j) \in Range(p)}) = 3
          /\ UNCHANGED state]_vars

C18_Witness ==
  /\ result.fn = "compose"
  /\ Len(sessions[current_sid].messages) = 15
  /\ ToString(6) \in Range(result.value)
  /\ ToString(5) \notin Range(result.value)

\* C19: with an empty search text _refresh_session_list lists every session
\* exactly once, every pinned session before every unpinned one and, among
\* the sessions of one group, a session of later activity first, the
\* activity being the timestamp of the last message, or created_at for a
\* session without messages.
C19_ListOrder ==
  [][CallList(<<>>) =>
       LET l == result'.value
           act(sid) == IF Len(sessions[sid].messages) > 0
                       THEN sessions[sid].messages[
                              Len(sessions[sid].messages)].ts
                       ELSE sessions[sid].created_at
       IN /\ Len(l) = Cardinality(DOMAIN sessions)
          /\ Range(l) = DOMAIN sessions
          /\ \A i, j \in 1..Len(l) :
               i < j =>
                 /\ sessions[l[j]].pinned => sessions[l[i]].pinned
                 /\ sessions[l[i]].pinned = sessions[l[j]].pinned =>
                      act(l[i]) >= act(l[j])]_vars

C19_Witness ==
  /\ result.fn = "list"
  /\ result.arg = <<>>
  /\ result.value = <<3, 2, 1>>
  /\ sessions[3].pinned /\ ~sessions[2].pinned /\ ~sessions[1].pinned
  /\ sessions[2].messages # <<>> /\ sessions[1].messages = <<>>
  /\ sessions[2].created_at < sessions[1].created_at

\* C20: for a text of c characters of the CJK range and o other characters
\* naive_token_estimate returns the integer max(1, floor(c/2 + o/4)): at
\* least 1, 1 for the empty text and 10 for 10 CJK and 20 other characters.
C20_EstimateFloor ==
  [][(result'.fn = "estimate" /\ result' # result) =>
       LET text == result'.arg
           c == Cardinality({i \in 1..Len(text) : text[i] \in CjkFirst..CjkLast})
           o == Cardinality({i \in 1..Len(text) :
                               text[i] \notin CjkFirst..CjkLast})
           v == result'.value
       IN /\ v \in Nat
          /\ v >= 1
          /\ \E f \in 0..(c + o) :
               /\ 4 * f <= 2 * c + o
               /\ 2 * c + o < 4 * f + 4
               /\ v = IF f > 1 THEN f ELSE 1
          /\ (c = 0 /\ o = 0) => v = 1
          /\ (c = 10 /\ o = 20) => v = 10]_vars

C20_Witness ==
  /\ result.fn = "estimate"
  /\ result.arg = TextOf(10, 20)
  /\ result.value = 10

\* the fields of the Session record
SessionFields ==
  {"id", "title", "model", "pinned", "tags", "sys_prompt", "params", "stop",
   "created_at", "messages"}

\* C21: the object written by the json export of a session holds every
\* field of the Session record with the session's value: id, title, model,
\* pinned, tags, sys_prompt, params, stop, created_at and the messages in
\* order
C21_JsonExportRoundTrip ==
  (result.fn = "export" /\ result.arg = "json" /\ result.value.written) =>
    LET d == result.value.text.session
        s == sessions[current_sid]
    IN \A f \in SessionFields :
         /\ f \in DOMAIN d
         /\ d[f] = IF f = "messages" THEN MessageDicts(s) ELSE s[f]

\* C22: a batch export that ends without an error leaves an archive with
\* one entry per selected session, the names of the entries pairwise
\* distinct, each the title of its session or its id when the title is
\* empty
C22_BatchOneEntryPerSession ==
  (result.fn = "batch" /\ message_box = "batch_done") =>
    LET e == result.value.entries
        sel == result.arg
    IN /\ Len(e) = Len(sel)
       /\ \A i, j \in 1..Len(e) : i # j => e[i].name # e[j].name
       /\ \A i \in 1..Len(e) :
            LET s == sessions[sel[i]]
            IN IF s.title # <<>>
               THEN e[i].name.title = s.title /\ e[i].name.id = None
               ELSE e[i].name.title = <<>> /\ e[i].name.id = sel[i]

\* C23: when the entry of a session cannot be encoded the batch export
\* reports a failure, the report names that session by its id or its
\* title, and the archive left holds no entry
C23_BatchFailureIsWhole ==
  (result.fn = "batch"
   /\ FirstFailure(sessions, result.arg) <= Len(result.arg)) =>
    LET sid == result.arg[FirstFailure(sessions, result.arg)]
    IN /\ message_box = "batch_failed"
       /\ \E word \in result.value.report :
            word = ToString(sid) \/ <<word>> = sessions[sid].title
       /\ result.value.entries = <<>>

\* C24: once the flag of a worker is set the worker never passes the test
\* of the flag again: it emits a fragment only if it had passed the test
\* before the flag was set, and after that fragment it is at the test, so
\* at most one fragment follows the cancellation
C24_CancelLatencyOneFragment ==
  [][\A w \in DOMAIN workers :
       workers[w].stop =>
         /\ workers'[w].i > workers[w].i =>
              /\ workers[w].pc = "emit"
              /\ workers'[w].i = workers[w].i + 1
              /\ workers'[w].pc \in {"check", "returned"}
         /\ workers[w].pc # "emit" => workers'[w].pc # "emit"]_vars

\* a worker cancelled after its first fragment has returned with the rest
\* of the text not emitted, and its done signal is waiting
C24_Witness ==
  \E w \in DOMAIN workers :
    /\ workers[w].stop
    /\ workers[w].pc = "returned"
    /\ workers[w].i \in 1..(NumFragments - 1)
    /\ \E k \in 1..Len(queue) : queue[k].kind = "done" /\ queue[k].w = w

\* a message apart from its content
Fixed(m) == [m EXCEPT !.content = <<>>]

\* the first n messages of new are the first n messages of old
SamePrefix(old, new, n) ==
  /\ n <= Len(old)
  /\ n <= Len(new)
  /\ \A k \in 1..n : Fixed(new[k]) = Fixed(old[k])

\* C25: in every step the message list of every session either keeps its
\* messages in place and gains at most two at its end (send appends the
\* user message, start the assistant message), or is cut to the prefix that
\* ends at its last user message and gains the new assistant message
\* (regenerate)
C25_AppendOrTruncate ==
  [][\A sid \in DOMAIN sessions \cap DOMAIN sessions' :
       LET old == sessions[sid].messages
           new == sessions'[sid].messages
       IN \/ /\ Len(new) \in Len(old)..(Len(old) + 2)
             /\ SamePrefix(old, new, Len(old))
          \/ /\ sid = current_sid
             /\ LastUser(old) # 0
             /\ Len(new) = LastUser(old) + 1
             /\ SamePrefix(old, new, LastUser(old))
             /\ Last(new).role = "assistant"
             /\ Last(new).gen = Len(workers')]_vars

\* C26: in every step in which the content of a message changes, the
\* message being the same object before and after, is_generating is true
\* and the message has the role assistant
C26_ContentChangesWhileStreaming ==
  [][\A sid \in DOMAIN sessions \cap DOMAIN sessions' :
       \A k \in 1..Len(sessions[sid].messages) :
         (/\ k <= Len(sessions'[sid].messages)
          /\ Fixed(sessions'[sid].messages[k]) = Fixed(sessions[sid].messages[k])
          /\ sessions'[sid].messages[k].content
               # sessions[sid].messages[k].content)
         => /\ is_generating
            /\ sessions[sid].messages[k].role = "assistant"]_vars

\* C27: every value the progress bar is given while a generation is active
\* (the start itself apart) is an integer in 0..100, is not smaller than
\* the value before it, equals (100 * k) \div NumFragments for a fragment k
\* that the worker of the generation has emitted, and is 100 only if that
\* worker has emitted all NumFragments fragments
C27_ProgressValues ==
  [][(/\ is_generating
      /\ stream_worker # None
      /\ Len(workers') = Len(workers)
      /\ progress_bar' # progress_bar)
     => LET g == stream_worker
            emitted == IF workers'[g] = Dropped THEN workers[g].i
                       ELSE workers'[g].i
        IN /\ progress_bar' \in 0..100
           /\ progress_bar' >= progress_bar
           /\ \E k \in 1..emitted :
                progress_bar' = (100 * k) \div NumFragments
           /\ progress_bar' = 100 => emitted = NumFragments]_vars

\* C28: when a done signal has been handled no chunk of its worker is left
\* to be handled, and the file holds the assistant message of that
\* generation with the content it has in memory
C28_SaveAfterFragments ==
  [][Handles("done") =>
       LET w == Head(queue).w
       IN /\ \A k \in 1..Len(queue') :
               ~(queue'[k].kind = "chunk" /\ queue'[k].w = w)
          /\ \A loc \in Pending(sessions', w) :
               /\ loc[1] \in DOMAIN file'.recs
               /\ loc[2] <= Len(file'.recs[loc[1]].messages)
               /\ file'.recs[loc[1]].messages[loc[2]].content
                    = sessions'[loc[1]].messages[loc[2]].content]_vars

\* a generation has completed with all its fragments, and the file holds
\* the whole answer
C28_Witness ==
  /\ ~is_generating
  /\ progress_bar = 100
  /\ \E w \in DOMAIN workers :
       /\ workers[w] = Dropped
       /\ \E loc \in Pending(sessions, w) :
            /\ sessions[loc[1]].messages[loc[2]].content = DemoText
            /\ loc[1] \in DOMAIN file.recs
            /\ loc[2] <= Len(file.recs[loc[1]].messages)
            /\ file.recs[loc[1]].messages[loc[2]].content = DemoText

\* C29: the step that creates a worker leaves the empty assistant message
\* of that worker at the end of the current session, with the worker not
\* yet running and none of its signals posted; and no chunk is handled
\* while the session of its worker ends with a user message
C29_AppendBeforeChunks ==
  [][/\ Len(workers') > Len(workers) =>
          LET w == Len(workers')
              msgs == sessions'[current_sid].messages
          IN /\ msgs # <<>>
             /\ Last(msgs).role = "assistant"
             /\ Last(msgs).content = <<>>
             /\ Last(msgs).gen = w
             /\ workers'[w].pc = "start"
             /\ \A k \in 1..Len(queue') : queue'[k].w # w
     /\ Handles("chunk") =>
          LET sid == workers[Head(queue).w].params_of
          IN (sid \in DOMAIN sessions /\ sessions[sid].messages # <<>>)
             => Last(sessions[sid].messages).role # "user"]_vars

\* the first chunk of a generation is about to be handled: the message it
\* goes to is the empty assistant message after the user message
C29_Witness ==
  /\ queue # <<>>
  /\ Head(queue).kind = "chunk"
  /\ LET msgs == sessions[current_sid].messages
     IN /\ Len(msgs) >= 2
        /\ Last(msgs).gen = Head(queue).w
        /\ Last(msgs).content = <<>>
        /\ msgs[Len(msgs) - 1].role = "user"

\* C30: a done or error signal of a worker that is not the current one
\* leaves the current generation as it is: is_generating stays true, the
\* current worker and thread stay in their slots and the flag of the
\* current worker is not set
C30_TeardownOnlyOwn ==
  [][(/\ Handles("done") \/ Handles("error")
      /\ stream_worker # None
      /\ Head(queue).w # stream_worker)
     => /\ is_generating' = is_generating
        /\ stream_worker' = stream_worker
        /\ stream_thread' = stream_thread
        /\ workers'[stream_worker].stop = workers[stream_worker].stop]_vars

\* the sequence s ends with the sequence t
EndsWith(s, t) ==
  /\ Len(t) <= Len(s)
  /\ SubSeq(s, Len(s) - Len(t) + 1, Len(s)) = t

\* C31: in every step that creates a worker, the prompt given to the
\* worker is the prompt composed from the current session without the
\* assistant message the step appends: it ends with the block of the user
\* message before that assistant message, and it is not the prompt of the
\* history with the empty assistant message at its end
C31_PromptBeforeAppend ==
  [][Len(workers') > Len(workers) =>
       LET w == Len(workers')
           s == sessions'[current_sid]
           n == Len(s.messages)
           before == [s EXCEPT !.messages = SubSeq(s.messages, 1, n - 1)]
       IN /\ n >= 2
          /\ s.messages[n].gen = w
          /\ s.messages[n - 1].role = "user"
          /\ workers'[w].prompt = ComposePrompt(before)
          /\ EndsWith(workers'[w].prompt,
                      <<"\n", "\n">>
                        \o Block("USER", s.messages[n - 1].content))
          /\ ~EndsWith(workers'[w].prompt, Block("ASSISTANT", <<>>))
          /\ workers'[w].prompt # ComposePrompt(s)]_vars

\* a generation has been started after an earlier one: its worker holds the
\* prompt that ends with the user message, and the session ends with the
\* worker's empty assistant message
C31_Witness ==
  \E w \in DOMAIN workers :
    LET s == sessions[current_sid]
        n == Len(s.messages)
    IN /\ w >= 2
       /\ workers[w].pc = "start"
       /\ n >= 2
       /\ s.messages[n].gen = w
       /\ s.messages[n].content = <<>>
       /\ EndsWith(workers[w].prompt,
                   Block("USER", s.messages[n - 1].content))

\* C32: in every state between two handlers is_generating is true exactly
\* when stream_worker holds a worker, and exactly when stream_thread holds
\* a thread
C32_SlotsAgree ==
  /\ is_generating <=> stream_worker # None
  /\ is_generating <=> stream_thread # None

\* the first generation has been torn down and a second one is active
C32_Witness ==
  /\ Len(workers) = 2
  /\ workers[1] = Dropped
  /\ is_generating
  /\ stream_worker = 2
  /\ stream_thread = 2

====
